---- MODULE Spec2Model ----
(***************************************************************************)
(* A model of fx_email.py: one run of main() under the __main__ guard.     *)
(*                                                                         *)
(* Strings are TLA+ strings built with \o; Len gives their width.          *)
(* A float is a record [n, d]: the exact rational n/d with d > 0, or NaN   *)
(* when d = 0.  Rates are binary fractions k/8, which IEEE doubles hold    *)
(* exactly, so the two-decimal rounding of a rate (round-half-even on the  *)
(* exact value) is the one Python performs.  A percentage change is kept   *)
(* as the exact rational 100*(new-old)/old; the double Python computes may *)
(* differ from it in the last bits, which both renderers see alike.        *)
(* Infinities are not modelled.                                            *)
(***************************************************************************)
EXTENDS Integers, Sequences, FiniteSets, TLC

VARIABLES env, pc, exc, cfg, run_day, refDate, rates, fetchLog, pctCalls,
          body_text, body_html, subject, msg, smtpLog, stdout, stderr,
          exitStatus

vars == <<env, pc, exc, cfg, run_day, refDate, rates, fetchLog, pctCalls,
          body_text, body_html, subject, msg, smtpLog, stdout, stderr,
          exitStatus>>

(***************************************************************************)
(* Program constants.                                                      *)
(***************************************************************************)
CURRENCIES == <<"KES", "UGX", "NGN", "TZS">>

BASE == "USD"

DefaultSmtpPort == 587

ColWidth == 12

CcyWidth == 5

ExitConfig == 2

ExitUncaught == 1

\* The reference dates in the order main() fetches them, with the number of
\* calendar days each lies before the run date.
Labels == <<"D-1", "D-2", "D-7", "D-30", "D-365">>

\* One year back taken as 366 days.
Offset_LeapYear(label) ==
    CASE label = "D-1" -> 1
      [] label = "D-2" -> 2
      [] label = "D-7" -> 7
      [] label = "D-30" -> 30
      [] label = "D-365" -> 366

Offset(label) ==
    CASE label = "D-1" -> 1
      [] label = "D-2" -> 2
      [] label = "D-7" -> 7
      [] label = "D-30" -> 30
      [] label = "D-365" -> 365

\* The environment variables main() reads with os.environ[...], in order.
RequiredVars == <<"OXR_APP_ID", "SMTP_HOST", "SMTP_USER", "SMTP_PASS",
                  "EMAIL_FROM", "EMAIL_TO">>

Unset == "<unset>"

(***************************************************************************)
(* Bounds of the model.                                                    *)
(***************************************************************************)
\* How many entries of OddRates the data source may return.
NumOddRates == 2

(***************************************************************************)
(* Floats.                                                                 *)
(***************************************************************************)
Abs(i) == IF i < 0 THEN -i ELSE i

NaN == [n |-> 0, d |-> 0]

IsNaN(x) == x.d = 0

IsZero(x) == x.d # 0 /\ x.n = 0

Eighths(k) == [n |-> k, d |-> 8]

\* x < y, x >= 0 on floats: every comparison with NaN is false.
FloatLess(x, y) == ~IsNaN(x) /\ ~IsNaN(y) /\ x.n * y.d < y.n * x.d

FloatGeZero(x) == ~IsNaN(x) /\ x.n >= 0

(***************************************************************************)
(* String helpers: Python's format mini-language as the program uses it.   *)
(***************************************************************************)
\* s * k
RECURSIVE Rep(_, _)
Rep(s, k) ==
    IF k <= 0 THEN ""
    ELSE IF k = 1 THEN s
    ELSE IF k % 2 = 0 THEN Rep(s \o s, k \div 2)
    ELSE s \o Rep(s \o s, k \div 2)

\* f"{s:>w}" and f"{s:<w}": pad with spaces, never truncate.
PadLeft(s, w) == Rep(" ", w - Len(s)) \o s

PadRight(s, w) == s \o Rep(" ", w - Len(s))

ZeroPad(k, w) == Rep("0", w - Len(ToString(k))) \o ToString(k)

\* The "," option: the integer part in groups of three digits.
RECURSIVE Grouped(_)
Grouped(k) ==
    IF k < 1000 THEN ToString(k)
    ELSE Grouped(k \div 1000) \o "," \o ZeroPad(k % 1000, 3)

\* |x| in hundredths, rounded half to even on the exact value.
Hundredths(x) ==
    LET a == Abs(x.n)
        q == a \div x.d
        r == a % x.d
        h == 100 * q + (100 * r) \div x.d
        rr == (100 * r) % x.d
    IN  IF 2 * rr > x.d THEN h + 1
        ELSE IF 2 * rr = x.d THEN h + (h % 2)
        ELSE h

\* format(x, "[+][,].2f"): the sign is that of x itself, so a negative value
\* that rounds to zero prints "-0.00"; NaN prints "nan" ("+nan" under "+").
Fixed2(x, plus, comma) ==
    IF IsNaN(x) THEN (IF plus THEN "+" ELSE "") \o "nan"
    ELSE LET h == Hundredths(x)
             sign == IF x.n < 0 THEN "-" ELSE IF plus THEN "+" ELSE ""
             int == IF comma THEN Grouped(h \div 100) ELSE ToString(h \div 100)
         IN  sign \o int \o "." \o ZeroPad(h % 100, 2)

(***************************************************************************)
(* Dates: a date is its proleptic Gregorian ordinal (date.toordinal()).    *)
(***************************************************************************)
DaysBeforeMonth == <<0, 31, 59, 90, 120, 151, 181, 212, 243, 273, 304, 334>>

\* datetime's _ord2ymd: ordinal -> <<year, month, day>>.
Ord2Ymd(ordinal) ==
    LET n0 == ordinal - 1
        n400 == n0 \div 146097
        na == n0 % 146097
        n100 == na \div 36524
        nb == na % 36524
        n4 == nb \div 1461
        nc == nb % 1461
        n1 == nc \div 365
        n == nc % 365
        year == n400 * 400 + 1 + n100 * 100 + n4 * 4 + n1
        leapyear == n1 = 3 /\ (n4 # 24 \/ n100 = 3)
        Before(m) == DaysBeforeMonth[m] + (IF m > 2 /\ leapyear THEN 1 ELSE 0)
        month0 == (n + 50) \div 32
        month == IF Before(month0) > n THEN month0 - 1 ELSE month0
    IN  IF n1 = 4 \/ n100 = 4 THEN <<year - 1, 12, 31>>
        ELSE <<year, month, n - Before(month) + 1>>

\* date.isoformat(): YYYY-MM-DD.
isoformat(day) ==
    LET ymd == Ord2Ymd(day)
    IN  ZeroPad(ymd[1], 4) \o "-" \o ZeroPad(ymd[2], 2) \o "-" \o ZeroPad(ymd[3], 2)

\* day - timedelta(days=k)
MinusDays(day, k) == day - k

\* d_1 .. d_365 of main(), keyed by label.
ReferenceDates(today) ==
    [i \in 1..Len(Labels) |-> MinusDays(today, Offset(Labels[i]))]

\* The date whose isoformat() goes into both bodies and the subject.
SpotDate(dates) == dates[1]

(***************************************************************************)
(* The program's pure functions.                                           *)
(***************************************************************************)
\* pct_change(new, old) = (new / old - 1.0) * 100.0.  Python raises
\* ZeroDivisionError on a zero divisor, whatever the dividend.
PctRaises(new, old) == IsZero(old)

pct_change(new, old) ==
    IF IsNaN(new) \/ IsNaN(old) THEN NaN
    ELSE LET num == 100 * (new.n * old.d - old.n * new.d)
             den == old.n * new.d
         IN  IF den < 0 THEN [n |-> -num, d |-> -den] ELSE [n |-> num, d |-> den]

\* f"{x:+.2f}%"
fmt_pct(x) == Fixed2(x, TRUE, FALSE) \o "%"

\* f"{x:,.2f}"
fmt_rate(x) == Fixed2(x, FALSE, TRUE)

\* sign = "+" if x >= 0 else ""; f"{sign}{x:.2f}%"
fmt_pct_html(x) ==
    LET sign == IF FloatGeZero(x) THEN "+" ELSE ""
    IN  sign \o Fixed2(x, FALSE, FALSE) \o "%"

\* Zero counted as negative.
pct_class_Strict(x) == IF ~IsNaN(x) /\ x.n > 0 THEN "pos" ELSE "neg"

pct_class(x) == IF FloatGeZero(x) THEN "pos" ELSE "neg"

(***************************************************************************)
(* Exceptions.                                                             *)
(***************************************************************************)
NoExc == [type |-> "", arg |-> "", where |-> ""]

Raise(type, arg, where) == [type |-> type, arg |-> arg, where |-> where]

(***************************************************************************)
(* The data source: what one GET of /historical/<day>.json may answer.     *)
(***************************************************************************)
CcySet == {CURRENCIES[i] : i \in 1..Len(CURRENCIES)}

CcyIndex(ccy) == CHOOSE i \in 1..Len(CURRENCIES) : CURRENCIES[i] = ccy

\* Sound quotes, in eighths: 10,000.00 and 9,999.875 (a rounding tie, and
\* 0.00125 % away from the first: a change that rounds to zero).
SoundRates == <<Eighths(80000), Eighths(79999)>>

\* Quotes a faulty source may return: 0, NaN (Python's json reads the literal
\* NaN), -1.00, and 129.50.
OddRates == <<Eighths(0), NaN, Eighths(-8), Eighths(1036)>>

\* The i-th sound table: the i-th sound rate, times 1..4 along the basket.
Table(i) ==
    [ccy \in CcySet |->
        [n |-> SoundRates[i].n * CcyIndex(ccy), d |-> SoundRates[i].d]]

\* The first sound table with one currency's quote replaced by an odd one.
OddCcy == "NGN"

OddTable(j) == [Table(1) EXCEPT ![OddCcy] = OddRates[j]]

\* A rates map that lacks one configured currency.
MissingCcy == "UGX"

IncompleteTable == [ccy \in CcySet \ {MissingCcy} |-> Table(1)[ccy]]

RateTables ==
    {Table(i) : i \in 1..Len(SoundRates)}
    \cup {OddTable(j) : j \in 1..NumOddRates}
    \cup {IncompleteTable}

Responses ==
    {[kind |-> "unreachable", data |-> <<>>],
     [kind |-> "status", data |-> <<>>],
     [kind |-> "notjson", data |-> <<>>],
     [kind |-> "json", data |-> [error |-> TRUE]]}
    \cup {[kind |-> "json", data |-> [rates |-> t]] : t \in RateTables}

\* get_rates_for_day: requests.get, raise_for_status, r.json(), data["rates"].
get_rates_for_day(resp) ==
    CASE resp.kind = "unreachable" ->
           [exc |-> Raise("ConnectionError", "", "get_rates_for_day"), val |-> <<>>]
      [] resp.kind = "status" ->
           [exc |-> Raise("HTTPError", "", "get_rates_for_day"), val |-> <<>>]
      [] resp.kind = "notjson" ->
           [exc |-> Raise("JSONDecodeError", "", "get_rates_for_day"), val |-> <<>>]
      [] resp.kind = "json" /\ "rates" \notin DOMAIN resp.data ->
           [exc |-> Raise("KeyError", "rates", "get_rates_for_day"), val |-> <<>>]
      [] OTHER -> [exc |-> NoExc, val |-> resp.data.rates]

(***************************************************************************)
(* The per-currency statements shared by main()'s loop (lines 208-217) and *)
(* build_fx_html_table's loop (lines 75-84): five dictionary lookups, then *)
(* four calls of pct_change.  calls counts the calls that returned.        *)
(***************************************************************************)
ComputeRow(rt, ccy, where) ==
    LET missing == {i \in 1..Len(Labels) : ccy \notin DOMAIN rt[i]}
        r == [i \in 1..Len(Labels) |-> IF i \in missing THEN NaN ELSE rt[i][ccy]]
        raising == {i \in 2..Len(Labels) : PctRaises(r[1], r[i])}
        first == CHOOSE i \in raising : \A j \in raising : i <= j
    IN  IF missing # {}
          THEN [exc |-> Raise("KeyError", ccy, where), calls |-> 0,
                r |-> r, ch |-> <<>>]
        ELSE IF raising # {}
          THEN [exc |-> Raise("ZeroDivisionError", "", where),
                calls |-> first - 2, r |-> r, ch |-> <<>>]
        ELSE [exc |-> NoExc, calls |-> Len(Labels) - 1, r |-> r,
              ch |-> [i \in 1..(Len(Labels) - 1) |-> pct_change(r[1], r[i + 1])]]

(***************************************************************************)
(* The plain text body of main(), as its list of lines.                    *)
(***************************************************************************)
TextHeader ==
    PadRight("CCY", CcyWidth) \o " " \o PadLeft("Spot", ColWidth) \o " "
    \o PadLeft("D-2", ColWidth) \o " " \o PadLeft("D-7", ColWidth) \o " "
    \o PadLeft("D-30", ColWidth) \o " " \o PadLeft("D-365", ColWidth)

TextPreamble(d_1) ==
    <<"FX summary (base " \o BASE \o ")",
      "Spot date: " \o isoformat(d_1) \o " (previous day)",
      "",
      "Quoted as: 1 USD = X CCY",
      "",
      TextHeader,
      Rep("-", Len(TextHeader))>>

\* Row 1 (rates): f"{ccy:<5} {spot:>12,.2f} {r2:>12,.2f} ..."
TextRateLine(ccy, r) ==
    PadRight(ccy, CcyWidth) \o " " \o PadLeft(Fixed2(r[1], FALSE, TRUE), ColWidth)
    \o " " \o PadLeft(Fixed2(r[2], FALSE, TRUE), ColWidth)
    \o " " \o PadLeft(Fixed2(r[3], FALSE, TRUE), ColWidth)
    \o " " \o PadLeft(Fixed2(r[4], FALSE, TRUE), ColWidth)
    \o " " \o PadLeft(Fixed2(r[5], FALSE, TRUE), ColWidth)

\* Row 2 (trends): f"{'':<5} {'':>12} {fmt_pct(ch_1d):>12} ..."
TextTrendLine(ch) ==
    PadRight("", CcyWidth) \o " " \o PadLeft("", ColWidth)
    \o " " \o PadLeft(fmt_pct(ch[1]), ColWidth)
    \o " " \o PadLeft(fmt_pct(ch[2]), ColWidth)
    \o " " \o PadLeft(fmt_pct(ch[3]), ColWidth)
    \o " " \o PadLeft(fmt_pct(ch[4]), ColWidth)

\* The loop over CURRENCIES from index i on: the lines appended, the calls of
\* pct_change that returned, and the exception that ended the loop, if any.
RECURSIVE TextLoop(_, _, _, _)
TextLoop(i, rt, lines, calls) ==
    IF i > Len(CURRENCIES) THEN [exc |-> NoExc, lines |-> lines, calls |-> calls]
    ELSE LET row == ComputeRow(rt, CURRENCIES[i], "main")
         IN  IF row.exc # NoExc
               THEN [exc |-> row.exc, lines |-> lines, calls |-> calls + row.calls]
             ELSE TextLoop(i + 1, rt,
                           lines \o <<TextRateLine(CURRENCIES[i], row.r),
                                      TextTrendLine(row.ch), "">>,
                           calls + row.calls)

BuildText(d_1, rt) == TextLoop(1, rt, TextPreamble(d_1), 0)

(***************************************************************************)
(* build_fx_html_table: the spot date and the table rows; a row is its     *)
(* cells, a cell its class attribute and its text.  The fixed markup       *)
(* around them is left out.                                                *)
(***************************************************************************)
Cell(cls, txt) == [cls |-> cls, txt |-> txt]

\* html.escape leaves letters, digits and punctuation other than & < > " '
\* alone; the basket's codes hold none of those.
HtmlRateRow(ccy, r) ==
    <<Cell("ccy", ccy), Cell("num", fmt_rate(r[1])), Cell("num", fmt_rate(r[2])),
      Cell("num", fmt_rate(r[3])), Cell("num", fmt_rate(r[4])),
      Cell("num", fmt_rate(r[5]))>>

TrendCell(x) == Cell("num " \o pct_class(x), fmt_pct_html(x))

HtmlTrendRow(ch) ==
    <<Cell("", ""), Cell("trend-label", "% change"), TrendCell(ch[1]),
      TrendCell(ch[2]), TrendCell(ch[3]), TrendCell(ch[4])>>

RECURSIVE HtmlLoop(_, _, _, _)
HtmlLoop(i, rt, rows, calls) ==
    IF i > Len(CURRENCIES) THEN [exc |-> NoExc, rows |-> rows, calls |-> calls]
    ELSE LET row == ComputeRow(rt, CURRENCIES[i], "build_fx_html_table")
         IN  IF row.exc # NoExc
               THEN [exc |-> row.exc, rows |-> rows, calls |-> calls + row.calls]
             ELSE HtmlLoop(i + 1, rt,
                           rows \o <<HtmlRateRow(CURRENCIES[i], row.r),
                                     HtmlTrendRow(row.ch)>>,
                           calls + row.calls)

build_fx_html_table(spot_date, rt) ==
    LET res == HtmlLoop(1, rt, <<>>, 0)
    IN  [exc |-> res.exc, calls |-> res.calls,
         html |-> [spot_date |-> isoformat(spot_date), rows |-> res.rows]]

NoHtml == [spot_date |-> "", rows |-> <<>>]

(***************************************************************************)
(* The process environment and the clock.                                  *)
(***************************************************************************)
\* SMTP_PORT is optional; when set it goes through int().
PortTexts == {"2525", "abc"}

IsIntText(s) == s = "2525"

IntOf(s) == IF s = "2525" THEN 2525 ELSE 0

ValueOf(var) == "value of " \o var

RequiredSet == {RequiredVars[i] : i \in 1..Len(RequiredVars)}

\* The environment in which exactly the required variables of `present` are
\* set, with SMTP_PORT as given.
EnvOf(present, port) ==
    [v \in RequiredSet \cup {"SMTP_PORT"} |->
        IF v = "SMTP_PORT" THEN port
        ELSE IF v \in present THEN ValueOf(v) ELSE Unset]

Environments ==
    {EnvOf(present, port) :
        present \in SUBSET RequiredSet, port \in {Unset} \cup PortTexts}

\* date.today(): 2024-03-01 (the day after a leap day), 2024-01-01.
RunDays == {738946, 738886}

(***************************************************************************)
(* main(), lines 161-169: the reads of the environment, in program order.  *)
(***************************************************************************)
ConfigOrder == <<"OXR_APP_ID", "SMTP_HOST", "SMTP_PORT", "SMTP_USER",
                 "SMTP_PASS", "EMAIL_FROM", "EMAIL_TO">>

\* Whether the i-th read raises: os.environ[name] on an unset name
\* (KeyError), int() on a text that is no integer (ValueError).
ReadRaises(e, i) ==
    IF ConfigOrder[i] = "SMTP_PORT"
      THEN e["SMTP_PORT"] # Unset /\ ~IsIntText(e["SMTP_PORT"])
      ELSE e[ConfigOrder[i]] = Unset

ReadConfig(e) ==
    LET bad == {i \in 1..Len(ConfigOrder) : ReadRaises(e, i)}
        first == CHOOSE i \in bad : \A j \in bad : i <= j
    IN  IF bad = {}
          THEN [exc |-> NoExc,
                cfg |-> [app_id |-> e["OXR_APP_ID"],
                         smtp_host |-> e["SMTP_HOST"],
                         smtp_port |-> IF e["SMTP_PORT"] = Unset
                                         THEN DefaultSmtpPort
                                         ELSE IntOf(e["SMTP_PORT"]),
                         smtp_user |-> e["SMTP_USER"],
                         smtp_pass |-> e["SMTP_PASS"],
                         email_from |-> e["EMAIL_FROM"],
                         email_to |-> e["EMAIL_TO"]]]
        ELSE IF ConfigOrder[first] = "SMTP_PORT"
          THEN [exc |-> Raise("ValueError", e["SMTP_PORT"], "main"), cfg |-> <<>>]
        ELSE [exc |-> Raise("KeyError", ConfigOrder[first], "main"), cfg |-> <<>>]

(***************************************************************************)
(* The state machine.  pc is the statement of main() about to run;         *)
(* "raised" is an exception on its way to the __main__ guard.              *)
(***************************************************************************)
Init ==
    /\ env \in Environments
    /\ pc = "config"
    /\ exc = NoExc
    /\ cfg = <<>>
    /\ run_day = 0
    /\ refDate = <<>>
    /\ rates = <<>>
    /\ fetchLog = <<>>
    /\ pctCalls = 0
    /\ body_text = <<>>
    /\ body_html = NoHtml
    /\ subject = ""
    /\ msg = <<>>
    /\ smtpLog = <<>>
    /\ stdout = <<>>
    /\ stderr = <<>>
    /\ exitStatus = -1

\* Lines 161-169.
Configure ==
    /\ pc = "config"
    /\ LET res == ReadConfig(env)
       IN  /\ exc' = res.exc
           /\ cfg' = res.cfg
           /\ pc' = IF res.exc = NoExc THEN "dates" ELSE "raised"
    /\ UNCHANGED <<env, run_day, refDate, rates, fetchLog, pctCalls, body_text,
                   body_html, subject, msg, smtpLog, stdout, stderr, exitStatus>>

\* Lines 172-177.
ComputeDates ==
    /\ pc = "dates"
    /\ \E today \in RunDays :
         /\ run_day' = today
         /\ refDate' = ReferenceDates(today)
    /\ pc' = "fetch"
    /\ UNCHANGED <<env, exc, cfg, rates, fetchLog, pctCalls, body_text,
                   body_html, subject, msg, smtpLog, stdout, stderr, exitStatus>>

\* The D-365 fetch left out: report construction after four calls.
AfterFetch_FourCalls(i, failed) ==
    IF failed THEN "raised" ELSE IF i = Len(Labels) - 1 THEN "text" ELSE "fetch"

\* A fetch failure swallowed: the loop goes on to the next date.
AfterFetch_Swallow(i, failed) ==
    IF i = Len(Labels) THEN "text" ELSE "fetch"

\* Where main() goes after the i-th fetch returned or raised.
AfterFetch(i, failed) ==
    IF failed THEN "raised" ELSE IF i = Len(Labels) THEN "text" ELSE "fetch"

\* Lines 180-186: the next entry of the rates dictionary.  fetchLog records
\* every call of get_rates_for_day: its label, its day, whether it returned.
Fetch ==
    /\ pc = "fetch"
    /\ LET i == Len(fetchLog) + 1
       IN  \E resp \in Responses :
             LET res == get_rates_for_day(resp)
             IN  /\ fetchLog' = Append(fetchLog,
                        [label |-> Labels[i], day |-> refDate[i],
                         ok |-> res.exc = NoExc])
                 /\ exc' = res.exc
                 /\ rates' = IF res.exc = NoExc THEN Append(rates, res.val) ELSE rates
                 /\ pc' = AfterFetch(i, res.exc # NoExc)
    /\ UNCHANGED <<env, cfg, run_day, refDate, pctCalls, body_text, body_html,
                   subject, msg, smtpLog, stdout, stderr, exitStatus>>

\* Lines 189-241.
BuildTextBody ==
    /\ pc = "text"
    /\ LET res == BuildText(SpotDate(refDate), rates)
       IN  /\ pctCalls' = pctCalls + res.calls
           /\ exc' = res.exc
           /\ body_text' = IF res.exc = NoExc THEN res.lines ELSE body_text
           /\ pc' = IF res.exc = NoExc THEN "html" ELSE "raised"
    /\ UNCHANGED <<env, cfg, run_day, refDate, rates, fetchLog, body_html,
                   subject, msg, smtpLog, stdout, stderr, exitStatus>>

\* Line 243.
BuildHtmlBody ==
    /\ pc = "html"
    /\ LET res == build_fx_html_table(SpotDate(refDate), rates)
       IN  /\ pctCalls' = pctCalls + res.calls
           /\ exc' = res.exc
           /\ body_html' = IF res.exc = NoExc THEN res.html ELSE body_html
           /\ pc' = IF res.exc = NoExc THEN "compose" ELSE "raised"
    /\ UNCHANGED <<env, cfg, run_day, refDate, rates, fetchLog, body_text,
                   subject, msg, smtpLog, stdout, stderr, exitStatus>>

Subject(d_1) ==
    "Daily FX: USD vs KES/UGX/NGN/TZS (spot " \o isoformat(d_1) \o ")"

\* Lines 246-254.
Compose ==
    /\ pc = "compose"
    /\ subject' = Subject(SpotDate(refDate))
    /\ msg' = [From |-> cfg.email_from, To |-> cfg.email_to,
               Subject |-> subject',
               plain |-> body_text, html |-> body_html]
    /\ pc' = "connect"
    /\ UNCHANGED <<env, exc, cfg, run_day, refDate, rates, fetchLog, pctCalls,
                   body_text, body_html, smtpLog, stdout, stderr, exitStatus>>

(***************************************************************************)
(* Lines 257-260: the mail session.  The relay is outside the program:     *)
(* each call either returns or raises.  smtpLog records every call made.   *)
(***************************************************************************)
MailError(op) ==
    CASE op = "connect" -> "OSError"
      [] op = "starttls" -> "SMTPException"
      [] op = "login" -> "SMTPAuthenticationError"
      [] op = "send_message" -> "SMTPRecipientsRefused"
      [] op = "quit" -> "SMTPResponseException"

\* login before starttls.
AfterMail_LoginFirst(op) ==
    CASE op = "connect" -> "login"
      [] op = "login" -> "starttls"
      [] op = "starttls" -> "send_message"
      [] op = "send_message" -> "quit"
      [] op = "quit" -> "print"

\* The statement after a mail call that returned.
AfterMail(op) ==
    CASE op = "connect" -> "starttls"
      [] op = "starttls" -> "login"
      [] op = "login" -> "send_message"
      [] op = "send_message" -> "quit"
      [] op = "quit" -> "print"

MailStep(op, arg) ==
    /\ pc = op
    /\ \E ok \in BOOLEAN :
         /\ smtpLog' = Append(smtpLog, [op |-> op, ok |-> ok, arg |-> arg])
         /\ exc' = IF ok THEN NoExc ELSE Raise(MailError(op), "", "main")
         /\ pc' = IF ok THEN AfterMail(op) ELSE "raised"
    /\ UNCHANGED <<env, cfg, run_day, refDate, rates, fetchLog, pctCalls,
                   body_text, body_html, subject, msg, stdout, stderr, exitStatus>>

\* Line 257: smtplib.SMTP(smtp_host, smtp_port) connects.
Connect == MailStep("connect", <<cfg.smtp_host, cfg.smtp_port>>)

\* Line 258.
StartTls == MailStep("starttls", <<>>)

\* Line 259.
Login == MailStep("login", <<cfg.smtp_user, cfg.smtp_pass>>)

\* Line 260.
SendMessage == MailStep("send_message", msg)

\* Leaving the with block after send_message returned: SMTP.__exit__ sends
\* QUIT and raises on an answer other than 221.
Quit == MailStep("quit", <<>>)

\* Line 262.
PrintSent ==
    /\ pc = "print"
    /\ stdout' = Append(stdout, "Email sent.")
    /\ pc' = "returned"
    /\ UNCHANGED <<env, exc, cfg, run_day, refDate, rates, fetchLog, pctCalls,
                   body_text, body_html, subject, msg, smtpLog, stderr, exitStatus>>

(***************************************************************************)
(* Lines 265-270: the __main__ guard.                                      *)
(***************************************************************************)
\* main() returned: the interpreter exits with status 0.
Return ==
    /\ pc = "returned"
    /\ exitStatus' = 0
    /\ pc' = "exited"
    /\ UNCHANGED <<env, exc, cfg, run_day, refDate, rates, fetchLog, pctCalls,
                   body_text, body_html, subject, msg, smtpLog, stdout, stderr>>

\* Whether the guard's except clause takes the exception.
Caught(e) == e.type = "KeyError"

MissingMessage(e) == "Missing environment variable: '" \o e.arg \o "'"

\* except KeyError as e: print(..., file=sys.stderr); sys.exit(2)
HandleKeyError ==
    /\ pc = "raised"
    /\ Caught(exc)
    /\ stderr' = Append(stderr, MissingMessage(exc))
    /\ exitStatus' = ExitConfig
    /\ pc' = "exited"
    /\ UNCHANGED <<env, exc, cfg, run_day, refDate, rates, fetchLog, pctCalls,
                   body_text, body_html, subject, msg, smtpLog, stdout>>

\* Any other exception leaves the guard: traceback, status 1.
Uncaught ==
    /\ pc = "raised"
    /\ ~Caught(exc)
    /\ stderr' = Append(stderr, "Traceback (most recent call last): " \o exc.type)
    /\ exitStatus' = ExitUncaught
    /\ pc' = "exited"
    /\ UNCHANGED <<env, exc, cfg, run_day, refDate, rates, fetchLog, pctCalls,
                   body_text, body_html, subject, msg, smtpLog, stdout>>

Next ==
    \/ Configure
    \/ ComputeDates
    \/ Fetch
    \/ BuildTextBody
    \/ BuildHtmlBody
    \/ Compose
    \/ Connect
    \/ StartTls
    \/ Login
    \/ SendMessage
    \/ Quit
    \/ PrintSent
    \/ Return
    \/ HandleKeyError
    \/ Uncaught

Spec == Init /\ [][Next]_vars

(***************************************************************************)
(* Vocabulary of the properties.                                           *)
(***************************************************************************)
Called(op) == \E i \in 1..Len(smtpLog) : smtpLog[i].op = op

Succeeded(op) == \E i \in 1..Len(smtpLog) : smtpLog[i].op = op /\ smtpLog[i].ok

FetchFailed == \E i \in 1..Len(fetchLog) : ~fetchLog[i].ok

Aborted == pc \in {"raised", "exited"} /\ exc # NoExc

ConfigComplete == \A v \in RequiredSet : env[v] # Unset

TextBuilt == body_text # <<>>

HtmlBuilt == body_html # NoHtml

ExpectedOffsets == <<1, 2, 7, 30, 365>>

ExpectedMailOrder == <<"connect", "starttls", "login", "send_message", "quit">>

\* The lines of the text body and the rows of the HTML body for the k-th
\* currency of the basket.
TextRateLineOf(k) == body_text[7 + 3 * (k - 1) + 1]

TextTrendLineOf(k) == body_text[7 + 3 * (k - 1) + 2]

HtmlRateRowOf(k) == body_html.rows[2 * k - 1]

HtmlTrendRowOf(k) == body_html.rows[2 * k]

\* A calendar date's ordinal, computed from the calendar rules.
IsLeap(y) == y % 4 = 0 /\ (y % 100 # 0 \/ y % 400 = 0)

YmdToOrdinal(y, m, d) ==
    (y - 1) * 365 + (y - 1) \div 4 - (y - 1) \div 100 + (y - 1) \div 400
    + DaysBeforeMonth[m] + (IF m > 2 /\ IsLeap(y) THEN 1 ELSE 0) + d

\* The YYYY-MM-DD text of the calendar date with the given ordinal: the year
\* and the month are the ones whose first day is the last at or before it.
CalendarIso(day) ==
    LET y == CHOOSE yy \in (day \div 366)..(day \div 365 + 1) :
                 YmdToOrdinal(yy, 1, 1) <= day /\ day < YmdToOrdinal(yy + 1, 1, 1)
        m == CHOOSE mm \in 1..12 :
                 /\ YmdToOrdinal(y, mm, 1) <= day
                 /\ mm < 12 => day < YmdToOrdinal(y, mm + 1, 1)
        d == day - YmdToOrdinal(y, m, 1) + 1
    IN  ZeroPad(y, 4) \o "-" \o ZeroPad(m, 2) \o "-" \o ZeroPad(d, 2)

IsPositive(x) == ~IsNaN(x) /\ x.n > 0

(***************************************************************************)
(* Properties.                                                             *)
(***************************************************************************)
\* C1: send_message is called only after all five fetches (D-1, D-2, D-7,
\* D-30, D-365) returned and both bodies were fully built and attached; once
\* a fetch has failed the run is aborted and no mail call is ever made.
C1_SendOnlyAfterFetchesAndBodies ==
    /\ Called("send_message") =>
         /\ Len(fetchLog) = Len(Labels)
         /\ \A i \in 1..Len(fetchLog) :
              fetchLog[i].ok /\ fetchLog[i].label = Labels[i]
         /\ Len(rates) = Len(Labels)
         /\ TextBuilt /\ Len(body_text) = 7 + 3 * Len(CURRENCIES)
         /\ HtmlBuilt /\ Len(body_html.rows) = 2 * Len(CURRENCIES)
         /\ msg # <<>> /\ msg.plain = body_text /\ msg.html = body_html
    /\ FetchFailed => Aborted /\ smtpLog = <<>> /\ ~TextBuilt /\ ~HtmlBuilt

\* C1 witness: a run whose message was accepted by the relay.
C1_Witness == Succeeded("send_message") /\ pc = "quit"

\* C2: with a required setting absent, no fetch and no mail call is made and
\* the process ends with exit status 2.
C2_MissingSettingExitsWithStatus2 ==
    ~ConfigComplete =>
        /\ fetchLog = <<>>
        /\ smtpLog = <<>>
        /\ pc = "exited" => exitStatus = ExitConfig

\* C3: a run with complete configuration that fails during rate retrieval
\* or delivery never ends with exit status 2 and the "Missing environment
\* variable" message.
C3_RuntimeFailureIsNotExitStatus2 ==
    (pc = "exited" /\ ConfigComplete /\ fetchLog # <<>> /\ exc # NoExc) =>
        ~(exitStatus = ExitConfig /\ stderr = <<MissingMessage(exc)>>)

\* C4: when a payload lacks a configured currency code, the failure is raised
\* by the fetch of that date, with no percentage change computed so far.
C4_MissingCurrencyFailsTheFetch ==
    (exc.type = "KeyError" /\ exc.arg \in CcySet) =>
        exc.where = "get_rates_for_day" /\ pctCalls = 0

\* C5: when a returned rate of a configured currency is zero or negative, no
\* report body is built and no email is sent.
C5_NonPositiveRateStopsTheRun ==
    (\E i \in 1..Len(rates) : \E ccy \in DOMAIN rates[i] :
        ~IsNaN(rates[i][ccy]) /\ rates[i][ccy].n <= 0) =>
      ~TextBuilt /\ ~HtmlBuilt /\ ~Called("send_message")

\* C6: the run derives exactly five reference dates, one per label D-1, D-2,
\* D-7, D-30, D-365, lying exactly 1, 2, 7, 30 and 365 calendar days before
\* the run date, and the text body, the HTML body and the subject all report
\* the D-1 date as the spot date.
C6_ReferenceDatesAndSpotDate ==
    /\ refDate # <<>> =>
         /\ Len(refDate) = Len(ExpectedOffsets)
         /\ Len(Labels) = Len(ExpectedOffsets)
         /\ \A i \in 1..Len(refDate) : run_day - refDate[i] = ExpectedOffsets[i]
    /\ TextBuilt =>
         body_text[2] = "Spot date: " \o CalendarIso(run_day - 1) \o " (previous day)"
    /\ HtmlBuilt => body_html.spot_date = CalendarIso(run_day - 1)
    /\ subject # "" =>
         subject = "Daily FX: USD vs KES/UGX/NGN/TZS (spot "
                   \o CalendarIso(run_day - 1) \o ")"

\* C6 witness: a composed message on a run date whose D-1 is 29 February.
C6_Witness ==
    /\ pc = "connect"
    /\ body_html.spot_date = "2024-02-29"
    /\ refDate[5] = run_day - 365

\* C7: for every currency and column, the rate strings and the signed
\* percentage strings of the text body are those of the HTML body: each text
\* line is the HTML row's cell texts, padded into the text columns.
C7_TextAndHtmlShowTheSameNumbers ==
    (TextBuilt /\ HtmlBuilt) =>
        \A k \in 1..Len(CURRENCIES) :
            /\ TextRateLineOf(k) =
                 PadRight(HtmlRateRowOf(k)[1].txt, CcyWidth)
                 \o " " \o PadLeft(HtmlRateRowOf(k)[2].txt, ColWidth)
                 \o " " \o PadLeft(HtmlRateRowOf(k)[3].txt, ColWidth)
                 \o " " \o PadLeft(HtmlRateRowOf(k)[4].txt, ColWidth)
                 \o " " \o PadLeft(HtmlRateRowOf(k)[5].txt, ColWidth)
                 \o " " \o PadLeft(HtmlRateRowOf(k)[6].txt, ColWidth)
            /\ TextTrendLineOf(k) =
                 PadRight("", CcyWidth) \o " " \o PadLeft("", ColWidth)
                 \o " " \o PadLeft(HtmlTrendRowOf(k)[3].txt, ColWidth)
                 \o " " \o PadLeft(HtmlTrendRowOf(k)[4].txt, ColWidth)
                 \o " " \o PadLeft(HtmlTrendRowOf(k)[5].txt, ColWidth)
                 \o " " \o PadLeft(HtmlTrendRowOf(k)[6].txt, ColWidth)

\* The trend cell expected for the k-th currency and the j-th horizon, given
\* the sign character and the style class: the magnitude is |change| to two
\* decimals.
ExpectedTrend(k, j, sign, cls) ==
    LET spot == rates[1][CURRENCIES[k]]
        comp == rates[j + 1][CURRENCIES[k]]
        diff == [n |-> Abs(spot.n * comp.d - comp.n * spot.d) * 100,
                 d |-> comp.n * spot.d]
    IN  Cell(cls, sign \o Fixed2(diff, FALSE, FALSE) \o "%")

\* The text trend line of the k-th currency whose j-th column shows txt (the
\* other columns as the program formats them).
TrendLineWith(k, j, txt) ==
    LET Field(i) ==
            IF i = j THEN txt
            ELSE fmt_pct(pct_change(rates[1][CURRENCIES[k]],
                                    rates[i + 1][CURRENCIES[k]]))
    IN  PadRight("", CcyWidth) \o " " \o PadLeft("", ColWidth)
        \o " " \o PadLeft(Field(1), ColWidth) \o " " \o PadLeft(Field(2), ColWidth)
        \o " " \o PadLeft(Field(3), ColWidth) \o " " \o PadLeft(Field(4), ColWidth)

\* The trend cells of the two bodies, as fetched rates and built bodies stand.
TrendCellsRight ==
    \A k \in 1..Len(CURRENCIES) :
        \A j \in 1..(Len(Labels) - 1) :
            LET spot == rates[1][CURRENCIES[k]]
                comp == rates[j + 1][CURRENCIES[k]]
                expected == IF FloatLess(spot, comp)
                              THEN ExpectedTrend(k, j, "-", "num neg")
                              ELSE ExpectedTrend(k, j, "+", "num pos")
            IN  (IsPositive(spot) /\ IsPositive(comp)) =>
                  /\ HtmlTrendRowOf(k)[j + 2] = expected
                  /\ TextTrendLineOf(k) = TrendLineWith(k, j, expected.txt)

\* C8: for every currency and horizon with positive rates, the HTML trend
\* cell has class neg and a minus sign exactly when the D-1 rate is lower than
\* the comparison rate, and class pos and a plus sign otherwise; the text body
\* shows the same signed string in that column.  Stated of the two bodies as
\* they stand when main attaches them to the message (lines 248-254).
C8_TrendSignAndClass ==
    (pc = "compose") => TrendCellsRight

\* C8 witness: both bodies built and about to be attached, for a basket whose D-1 rates are positive
\* and lower than the D-2 rates by so little that the change rounds to zero:
\* the cell is class neg and reads -0.00%.
C8_Witness ==
    /\ pc = "compose"
    /\ TextBuilt /\ HtmlBuilt
    /\ IsPositive(rates[1]["KES"]) /\ IsPositive(rates[2]["KES"])
    /\ FloatLess(rates[1]["KES"], rates[2]["KES"])
    /\ HtmlTrendRowOf(1)[3] = Cell("num neg", "-0.00%")

\* The run has started to build the report: it is at, or past, the loop over
\* the basket, or an exception of that loop ended it.
ReachedConstruction ==
    \/ pc \in {"text", "html", "compose"}
    \/ TextBuilt
    \/ exc.type = "ZeroDivisionError"
    \/ exc.type = "KeyError" /\ exc.arg \in CcySet

\* C9: the rate source is called at most once per reference date, in the
\* order D-1, D-2, D-7, D-30, D-365, and never again after a failure; a run
\* that reaches report construction has made exactly five calls, all of
\* which returned.
C9_OneFetchPerDateNoRetry ==
    /\ Len(fetchLog) <= Len(ExpectedOffsets)
    /\ \A i \in 1..Len(fetchLog) :
         /\ fetchLog[i].label = Labels[i]
         /\ fetchLog[i].day = run_day - ExpectedOffsets[i]
         /\ i < Len(fetchLog) => fetchLog[i].ok
    /\ \A i, j \in 1..Len(fetchLog) :
         i # j => fetchLog[i].day # fetchLog[j].day
    /\ FetchFailed => Aborted
    /\ ReachedConstruction =>
         /\ Len(fetchLog) = Len(ExpectedOffsets)
         /\ \A i \in 1..Len(fetchLog) : fetchLog[i].ok

\* C9 witness: report construction is about to start after five calls.
C9_Witness == pc = "text" /\ Len(fetchLog) = 5 /\ Len(rates) = 5

\* C10: the mail calls are made in the order connect, starttls, login,
\* send_message, each only after the one before returned; "Email sent." is
\* printed, and the run ends with status 0, only after send_message returned;
\* a failure of any of these calls ends the run with the message not sent.
C10_MailSessionOrder ==
    /\ Len(smtpLog) <= Len(ExpectedMailOrder)
    /\ \A i \in 1..Len(smtpLog) :
         /\ smtpLog[i].op = ExpectedMailOrder[i]
         /\ i < Len(smtpLog) => smtpLog[i].ok
    /\ Called("login") => Succeeded("starttls")
    /\ Called("send_message") => Succeeded("login")
    /\ stdout # <<>> => stdout = <<"Email sent.">> /\ Succeeded("send_message")
    /\ (pc = "exited" /\ exitStatus = 0) =>
         stdout = <<"Email sent.">> /\ Succeeded("send_message")
    /\ \A i \in 1..Len(smtpLog) :
         (~smtpLog[i].ok /\ smtpLog[i].op # "quit") =>
            /\ ~Succeeded("send_message")
            /\ Aborted
            /\ stdout = <<>>

\* C10 witness: a run that printed "Email sent." and ended with status 0.
C10_Witness ==
    pc = "exited" /\ exitStatus = 0 /\ stdout = <<"Email sent.">>
    /\ Succeeded("send_message")

====
